---- MODULE Spec2Model ----
(***************************************************************************)
(* Model of the thread wrapper CDaemon<T> of eHonnef/thread-cpp.           *)
(*                                                                         *)
(* Two generations of the class are modelled:                              *)
(*   - the event-driven worker (src/unnamed/part_003): condition variable, *)
(*     Stop() joins, the epilogue drains the queue;                        *)
(*   - the polling worker (src/include/ThreadWrapper/Daemon.cc): Suspend / *)
(*     Resume, Detach, Stop() only clears the flag.                        *)
(* Both keep their messages in a std::priority_queue ordered by            *)
(* CPriorityQueueComparison, modelled as the binary heap the standard      *)
(* library keeps in the underlying vector.                                 *)
(***************************************************************************)
EXTENDS Integers, Sequences, FiniteSets, TLC

(***************************************************************************)
(* Bounds of the model.                                                    *)
(***************************************************************************)
\* Largest priority value a caller passes to SData.
MaxPrio == 1
\* Number of SafeAddMessage calls in a run.
MaxItems == 2
\* Number of Start() calls in a run (each spawns at most one thread).
MaxStarts == 2
\* Number of Stop() calls in a run.
MaxStops == 2
\* Number of Suspend() calls in a run of the polling worker.
MaxSuspends == 1
\* Longest sequence of messages pushed in the single-threaded queue test.
MaxQLen == 4
\* Sleep() calls made on one worker.
MaxSleeps == 2
\* Largest duration passed to Sleep(), in ms.
MaxSleepMs == 1

Priorities == 0..MaxPrio
Durations == 0..MaxSleepMs

(***************************************************************************)
(* SData: nPriority and the payload.  The payload identifies the message.  *)
(***************************************************************************)
SData(p, d) == [nPriority |-> p, Data |-> d]

\* std::optional<SData>: the empty sequence, or a sequence of one message.
NullOpt == << >>
Some(x) == << x >>
has_value(o) == Len(o) = 1

(***************************************************************************)
(* CPriorityQueueComparison::operator()                                    *)
(***************************************************************************)
CompReversed(lData, rData) == lData.nPriority < rData.nPriority

CPriorityQueueComparison(lData, rData) == lData.nPriority > rData.nPriority

(***************************************************************************)
(* std::priority_queue over std::vector: the vector is a sequence, element *)
(* i of the vector (0-based) is h[i + 1].  push is push_back + push_heap,  *)
(* pop is pop_heap + pop_back, top is front().                             *)
(***************************************************************************)
At(h, i) == h[i + 1]
Put(h, i, x) == [h EXCEPT ![i + 1] = x]

\* std::__push_heap: move the hole up while the parent compares before value.
RECURSIVE PushHeapFrom(_, _, _, _)
PushHeapFrom(h, holeIndex, topIndex, value) ==
  IF holeIndex > topIndex
     /\ CPriorityQueueComparison(At(h, (holeIndex - 1) \div 2), value)
  THEN PushHeapFrom(Put(h, holeIndex, At(h, (holeIndex - 1) \div 2)),
                    (holeIndex - 1) \div 2, topIndex, value)
  ELSE Put(h, holeIndex, value)

\* std::__adjust_heap, first loop: move the hole down to the preferred child.
RECURSIVE AdjustDown(_, _, _)
AdjustDown(h, secondChild, len) ==
  IF secondChild < (len - 1) \div 2
  THEN LET sc  == 2 * (secondChild + 1)
           sc2 == IF CPriorityQueueComparison(At(h, sc), At(h, sc - 1))
                  THEN sc - 1 ELSE sc
       IN  AdjustDown(Put(h, secondChild, At(h, sc2)), sc2, len)
  ELSE << h, secondChild >>

\* std::__adjust_heap(first, 0, len, value)
AdjustHeap(h, len, value) ==
  LET r    == AdjustDown(h, 0, len)
      h1   == r[1]
      hole == r[2]
  IN  IF len % 2 = 0 /\ hole = (len - 2) \div 2
      THEN LET sc == 2 * (hole + 1)
           IN  PushHeapFrom(Put(h1, hole, At(h1, sc - 1)), sc - 1, 0, value)
      ELSE PushHeapFrom(h1, hole, 0, value)

\* m_Queue.push(Data)
QueuePushNoHeap(h, x) == Append(h, x)

QueuePush(h, x) == PushHeapFrom(Append(h, x), Len(h), 0, x)

\* m_Queue.top()
QueueTop(h) == h[1]

\* m_Queue.pop()
QueuePop(h) ==
  IF Len(h) > 1
  THEN LET last == Len(h) - 1
           h1   == Put(h, last, At(h, 0))
       IN  SubSeq(AdjustHeap(h1, last, At(h, last)), 1, last)
  ELSE << >>

\* m_Queue.empty()
QueueEmpty(h) == Len(h) = 0

(***************************************************************************)
(* Helpers on sequences of messages.                                       *)
(***************************************************************************)
Range(s) == { s[i] : i \in 1..Len(s) }
PrioOf(s) == [ i \in 1..Len(s) |-> s[i].nPriority ]
NonDecreasing(s) == \A i \in 1..Len(s) : \A j \in i..Len(s) : s[i] <= s[j]
CountOf(s, v) == Cardinality({ i \in 1..Len(s) : s[i] = v })
SameMultiset(s, t) ==
  \A v \in Range(s) \cup Range(t) : CountOf(s, v) = CountOf(t, v)
MinPrio(h) == CHOOSE p \in Range(PrioOf(h)) : \A q \in Range(PrioOf(h)) : p <= q

(***************************************************************************)
(* State.                                                                  *)
(***************************************************************************)
VARIABLES
  m_Queue,        \* std::priority_queue: the heap vector
  m_bIsRunning,   \* std::atomic<bool>
  m_bFinished,    \* std::atomic<bool>            (event-driven worker)
  m_nSleepMs,     \* std::atomic<int>             (event-driven worker)
  m_bIsSleeping,  \* std::atomic<bool>            (event-driven worker)
  m_bIsSuspended, \* std::atomic<bool>            (polling worker)
  m_Mutex,        \* owner of the mutex, NoOwner when unlocked
  m_Thread,       \* std::thread: id of the joinable thread, NoThread otherwise
  m_ConditionVar, \* set of threads blocked in m_ConditionVar.wait
  tpc,            \* position of every execution thread in Execute
  tData,          \* Execute / ProcessThreadEpilogue: std::optional<SData> Data
  tSleep,         \* Execute: int nSleep
  cpc,            \* position of every calling thread in the public method it runs
  cArg,           \* argument / local of the call in progress
  terminated,     \* std::terminate was called
  accepted,       \* history: messages pushed by SafeAddMessage, in push order
  processed,      \* history: messages passed to Process, in call order
  hist,           \* history: counters and flags the properties read
  script,         \* queue test: priorities main() still has to enqueue
  qOut,           \* queue test: values returned by the Dequeue calls of main()
  draining        \* queue test: main() reached its dequeue loop

vars == << m_Queue, m_bIsRunning, m_bFinished, m_nSleepMs, m_bIsSleeping,
           m_bIsSuspended, m_Mutex, m_Thread, m_ConditionVar, tpc, tData,
           tSleep, cpc, cArg, terminated, accepted, processed, hist,
           script, qOut, draining >>

workerVars == << m_bIsRunning, m_bFinished, m_nSleepMs, m_bIsSleeping,
                 m_bIsSuspended, m_Mutex, m_Thread, m_ConditionVar, tpc,
                 tData, tSleep, cpc, cArg, terminated, processed, hist >>

testVars == << script, qOut, draining >>

Threads == 1..MaxStarts
Clients == {101, 102}
NoOwner == 0
NoThread == 0

\* Initial value of the history record.
Hist0 == [ starts      |-> 0,     \* Start() calls made
           startsDone  |-> 0,     \* Start() calls that returned
           stops       |-> 0,     \* Stop() calls made
           spawned     |-> 0,     \* threads created by Start()
           rejoined    |-> 0,     \* join() calls that returned for a thread joined before
           loopDone    |-> 0,     \* Process calls made from the loop of Execute
           faults      |-> 0,     \* calls that ended in an exception
           addLate     |-> FALSE, \* a SafeAddMessage began after a Start() call
           stopsDone   |-> 0,     \* Stop() calls that returned
           adds        |-> 0,     \* SafeAddMessage calls made
           sleeps      |-> 0,     \* Sleep() calls made
           snap        |-> [c \in Clients |-> {}],    \* Completed, at Stop() call
           snapStarted |-> [c \in Clients |-> FALSE], \* startsDone > 0, at Stop() call
           suspends    |-> 0,     \* Suspend() calls made
           batch       |-> {},    \* payloads pushed during the latest suspension
           spoiled     |-> FALSE, \* a message was pushed after that suspension
           overlap     |-> FALSE, \* the Sleep() call in progress began with a request outstanding
           accept      |-> FALSE, \* the Sleep() call in progress began with the worker running
           pending     |-> 0,     \* accepted Sleep(n > 0) requests not yet paused for
           stopped     |-> FALSE, \* Stop() was called last, no Start() call since
           deqAfterStop |-> 0,    \* messages dequeued since that Stop() call
           addStopped  |-> FALSE, \* the latest SafeAddMessage call began after Stop() returned
                                  \* on a worker that had been started
           selfStop    |-> FALSE ] \* Process called Stop() on its own worker

\* State after construction with the default constructor, nothing enqueued.
InitObject ==
  /\ m_Queue = << >>
  /\ m_bIsRunning = FALSE
  /\ m_bFinished = FALSE
  /\ m_nSleepMs = 0
  /\ m_bIsSleeping = FALSE
  /\ m_bIsSuspended = FALSE
  /\ m_Mutex = NoOwner
  /\ m_Thread = NoThread
  /\ m_ConditionVar = {}
  /\ tpc = [t \in Threads |-> "none"]
  /\ tData = [t \in Threads |-> NullOpt]
  /\ tSleep = [t \in Threads |-> 0]
  /\ cpc = [c \in Clients |-> "idle"]
  /\ cArg = [c \in Clients |-> 0]
  /\ terminated = FALSE
  /\ accepted = << >>
  /\ processed = << >>
  /\ hist = Hist0

\* Payloads of the messages whose SafeAddMessage call has returned.
Completed ==
  { accepted[i].Data : i \in 1..Len(accepted) }
    \ { cArg[c] : c \in { d \in Clients : cpc[d] = "add_notify" } }

(***************************************************************************)
(* CDaemon::Dequeue, the part under the lock_guard: the returned optional  *)
(* and the queue it leaves.                                                *)
(***************************************************************************)
DequeueNoPop(h) ==
  IF QueueEmpty(h) THEN << NullOpt, h >> ELSE << Some(QueueTop(h)), h >>

Dequeue(h) ==
  IF QueueEmpty(h)
  THEN << NullOpt, h >>
  ELSE << Some(QueueTop(h)), QueuePop(h) >>

(***************************************************************************)
(* The priority test (src/unnamed/part_001, second main): one thread calls *)
(* SafeAddMessage some times and then Dequeue until the queue is empty.    *)
(* Start is not called before, no other thread exists, so every call runs  *)
(* to completion alone: lock, push, unlock, notify with nobody waiting.    *)
(***************************************************************************)
\* The priorities main() enqueues, in order.
ExamplePriorities == << 20, 40, 4, 3, 0, 10, 1, 0, 5, 50, 50, 1, 1 >>
ExampleSorted == << 0, 0, 1, 1, 1, 3, 4, 5, 10, 20, 40, 50, 50 >>

InitQ ==
  /\ InitObject
  /\ script \in { << >>, ExamplePriorities }
  /\ qOut = << >>
  /\ draining = FALSE

\* EnqueueData(nPriority, nMsgID++, objDaemon) of the scripted main().
QEnqueueData ==
  /\ ~draining
  /\ hist.starts = 0
  /\ script # << >>
  /\ m_Queue' = QueuePush(m_Queue, SData(Head(script), Len(accepted)))
  /\ accepted' = Append(accepted, SData(Head(script), Len(accepted)))
  /\ script' = Tail(script)
  /\ UNCHANGED << workerVars, qOut, draining >>

\* SafeAddMessage with a priority of the caller's choice.
QSafeAddMessage(p) ==
  /\ ~draining
  /\ hist.starts = 0
  /\ script = << >>
  /\ Len(accepted) < MaxQLen
  /\ m_Queue' = QueuePush(m_Queue, SData(p, Len(accepted)))
  /\ accepted' = Append(accepted, SData(p, Len(accepted)))
  /\ UNCHANGED << workerVars, testVars >>

\* objDaemon.Dequeue() of main(); the first call starts the dequeue phase.
QDequeue ==
  /\ script = << >>
  /\ Len(qOut) <= Len(accepted)
  /\ m_Queue' = Dequeue(m_Queue)[2]
  /\ qOut' = Append(qOut, Dequeue(m_Queue)[1])
  /\ draining' = TRUE
  /\ UNCHANGED << workerVars, accepted, script >>

NextQ ==
  \/ QEnqueueData
  \/ \E p \in Priorities : QSafeAddMessage(p)
  \/ QDequeue

SpecQ == InitQ /\ [][NextQ]_vars

(***************************************************************************)
(* Event-driven worker (src/unnamed/part_003).                             *)
(***************************************************************************)
\* m_ConditionVar.notify_one(): wakes one of the blocked threads, if any.
\* The woken thread leaves wait's blocked state and goes to re-lock the mutex.
NotifyOne ==
  IF m_ConditionVar = {}
  THEN UNCHANGED << m_ConditionVar, tpc >>
  ELSE \E t \in m_ConditionVar :
         /\ m_ConditionVar' = m_ConditionVar \ {t}
         /\ tpc' = [tpc EXCEPT ![t] = "wait_lock"]

\* The predicate of m_ConditionVar.wait in Execute.
WaitPredicate == ~QueueEmpty(m_Queue) \/ ~m_bIsRunning \/ m_nSleepMs > 0

\* Execute: ProcessThreadPreamble()
ExecPreamble(t) ==
  /\ tpc[t] = "preamble"
  /\ tpc' = [tpc EXCEPT ![t] = "loop"]
  /\ UNCHANGED << m_Queue, m_bIsRunning, m_bFinished, m_nSleepMs,
                  m_bIsSleeping, m_bIsSuspended, m_Mutex, m_Thread,
                  m_ConditionVar, tData, tSleep, cpc, cArg, terminated,
                  accepted, processed, hist, testVars >>

\* Execute: while (m_bIsRunning)
ExecLoopCheck(t) ==
  /\ tpc[t] = "loop"
  /\ tpc' = [tpc EXCEPT ![t] = IF m_bIsRunning THEN "wait_lock" ELSE "epi_lock"]
  /\ UNCHANGED << m_Queue, m_bIsRunning, m_bFinished, m_nSleepMs,
                  m_bIsSleeping, m_bIsSuspended, m_Mutex, m_Thread,
                  m_ConditionVar, tData, tSleep, cpc, cArg, terminated,
                  accepted, processed, hist, testVars >>

\* Execute: std::unique_lock lock(m_Mutex), also the re-lock after a wakeup.
ExecWaitLock(t) ==
  /\ tpc[t] = "wait_lock"
  /\ m_Mutex = NoOwner
  /\ m_Mutex' = t
  /\ tpc' = [tpc EXCEPT ![t] = "wait_pred"]
  /\ UNCHANGED << m_Queue, m_bIsRunning, m_bFinished, m_nSleepMs,
                  m_bIsSleeping, m_bIsSuspended, m_Thread, m_ConditionVar,
                  tData, tSleep, cpc, cArg, terminated, accepted, processed,
                  hist, testVars >>

\* Execute: the predicate of wait, evaluated with the mutex held.  True:
\* wait returns and the lock's scope ends.  False: the thread goes on to block.
ExecWaitPred(t) ==
  /\ tpc[t] = "wait_pred"
  /\ IF WaitPredicate
     THEN /\ m_Mutex' = NoOwner
          /\ tpc' = [tpc EXCEPT ![t] = "sleep_check"]
     ELSE /\ m_Mutex' = m_Mutex
          /\ tpc' = [tpc EXCEPT ![t] = "wait_block"]
  /\ UNCHANGED << m_Queue, m_bIsRunning, m_bFinished, m_nSleepMs,
                  m_bIsSleeping, m_bIsSuspended, m_Thread, m_ConditionVar,
                  tData, tSleep, cpc, cArg, terminated, accepted, processed,
                  hist, testVars >>

\* Execute: wait releases the mutex and blocks, atomically.
ExecWaitBlock(t) ==
  /\ tpc[t] = "wait_block"
  /\ m_Mutex' = NoOwner
  /\ m_ConditionVar' = m_ConditionVar \cup {t}
  /\ tpc' = [tpc EXCEPT ![t] = "waiting"]
  /\ UNCHANGED << m_Queue, m_bIsRunning, m_bFinished, m_nSleepMs,
                  m_bIsSleeping, m_bIsSuspended, m_Thread, tData, tSleep,
                  cpc, cArg, terminated, accepted, processed, hist, testVars >>

\* A spurious wakeup of a blocked thread: it goes to re-lock the mutex.
SpuriousWakeup(t) ==
  /\ tpc[t] = "waiting"
  /\ t \in m_ConditionVar
  /\ m_ConditionVar' = m_ConditionVar \ {t}
  /\ tpc' = [tpc EXCEPT ![t] = "wait_lock"]
  /\ UNCHANGED << m_Queue, m_bIsRunning, m_bFinished, m_nSleepMs,
                  m_bIsSleeping, m_bIsSuspended, m_Mutex, m_Thread, tData,
                  tSleep, cpc, cArg, terminated, accepted, processed, hist,
                  testVars >>

\* Execute: if (int nSleep = m_nSleepMs); when it is 0 the thread goes on
\* through ProcessPreQueue() (empty in the base class) to Dequeue().
ExecSleepCheck(t) ==
  /\ tpc[t] = "sleep_check"
  /\ tSleep' = [tSleep EXCEPT ![t] = m_nSleepMs]
  /\ tpc' = [tpc EXCEPT ![t] = IF m_nSleepMs # 0 THEN "sleep_set" ELSE "deq_lock"]
  /\ UNCHANGED << m_Queue, m_bIsRunning, m_bFinished, m_nSleepMs,
                  m_bIsSleeping, m_bIsSuspended, m_Mutex, m_Thread,
                  m_ConditionVar, tData, cpc, cArg, terminated, accepted,
                  processed, hist, testVars >>

\* Execute: m_bIsSleeping = true; the thread then is in sleep_for(nSleep).
ExecSleepSet(t) ==
  /\ tpc[t] = "sleep_set"
  /\ m_bIsSleeping' = TRUE
  /\ tpc' = [tpc EXCEPT ![t] = "sleeping"]
  /\ hist' = [hist EXCEPT !.pending = IF @ > 0 THEN @ - 1 ELSE 0]
  /\ UNCHANGED << m_Queue, m_bIsRunning, m_bFinished, m_nSleepMs,
                  m_bIsSuspended, m_Mutex, m_Thread, m_ConditionVar, tData,
                  tSleep, cpc, cArg, terminated, accepted, processed,
                  testVars >>

\* Execute: sleep_for returns; m_bIsSleeping = false
ExecSleepEnd(t) ==
  /\ tpc[t] = "sleeping"
  /\ m_bIsSleeping' = FALSE
  /\ tpc' = [tpc EXCEPT ![t] = "sleep_reset"]
  /\ UNCHANGED << m_Queue, m_bIsRunning, m_bFinished, m_nSleepMs,
                  m_bIsSuspended, m_Mutex, m_Thread, m_ConditionVar, tData,
                  tSleep, cpc, cArg, terminated, accepted, processed, hist,
                  testVars >>

\* Execute: m_nSleepMs = 0; continue
ExecSleepReset(t) ==
  /\ tpc[t] = "sleep_reset"
  /\ m_nSleepMs' = 0
  /\ tpc' = [tpc EXCEPT ![t] = "loop"]
  /\ tSleep' = [tSleep EXCEPT ![t] = 0]
  /\ hist' = [hist EXCEPT !.pending = 0]
  /\ UNCHANGED << m_Queue, m_bIsRunning, m_bFinished, m_bIsSleeping,
                  m_bIsSuspended, m_Mutex, m_Thread, m_ConditionVar, tData,
                  cpc, cArg, terminated, accepted, processed, testVars >>

\* Dequeue that goes on without taking the mutex.
DequeueNoLock(t) ==
  /\ tpc[t] \in {"deq_lock", "epi_lock"}
  /\ tpc' = [tpc EXCEPT ![t] = IF tpc[t] = "deq_lock" THEN "deq" ELSE "epi_deq"]
  /\ UNCHANGED << m_Queue, m_bIsRunning, m_bFinished, m_nSleepMs,
                  m_bIsSleeping, m_bIsSuspended, m_Mutex, m_Thread,
                  m_ConditionVar, tData, tSleep, cpc, cArg, terminated,
                  accepted, processed, hist, testVars >>

\* Dequeue: std::lock_guard lock(m_Mutex), called from the loop of Execute
\* ("deq_lock") or from ProcessThreadEpilogue ("epi_lock").
DequeueLock(t) ==
  /\ tpc[t] \in {"deq_lock", "epi_lock"}
  /\ m_Mutex = NoOwner
  /\ m_Mutex' = t
  /\ tpc' = [tpc EXCEPT ![t] = IF tpc[t] = "deq_lock" THEN "deq" ELSE "epi_deq"]
  /\ UNCHANGED << m_Queue, m_bIsRunning, m_bFinished, m_nSleepMs,
                  m_bIsSleeping, m_bIsSuspended, m_Thread, m_ConditionVar,
                  tData, tSleep, cpc, cArg, terminated, accepted, processed,
                  hist, testVars >>

\* Execute: Data = Dequeue(); if (Data.has_value()); with no value the thread
\* goes on through ProcessAfterQueue() (empty in the base class) to the loop test.
ExecDequeue(t) ==
  /\ tpc[t] = "deq"
  /\ m_Mutex = t
  /\ tData' = [tData EXCEPT ![t] = Dequeue(m_Queue)[1]]
  /\ m_Queue' = Dequeue(m_Queue)[2]
  /\ m_Mutex' = NoOwner
  /\ tpc' = [tpc EXCEPT ![t] =
               IF has_value(Dequeue(m_Queue)[1]) THEN "process" ELSE "loop"]
  /\ UNCHANGED << m_bIsRunning, m_bFinished, m_nSleepMs, m_bIsSleeping,
                  m_bIsSuspended, m_Thread, m_ConditionVar, tSleep, cpc, cArg,
                  terminated, accepted, processed, hist, testVars >>

\* Execute: Process((*Data).nMessageID, *Data); RegisterDelayToProcess(*Data);
\* ProcessAfterQueue(); Data goes out of scope at the end of the loop body.
ExecProcess(t) ==
  /\ tpc[t] = "process"
  /\ processed' = Append(processed, tData[t][1])
  /\ tData' = [tData EXCEPT ![t] = NullOpt]
  /\ tpc' = [tpc EXCEPT ![t] = "loop"]
  /\ hist' = [hist EXCEPT !.loopDone = @ + 1]
  /\ UNCHANGED << m_Queue, m_bIsRunning, m_bFinished, m_nSleepMs,
                  m_bIsSleeping, m_bIsSuspended, m_Mutex, m_Thread,
                  m_ConditionVar, tSleep, cpc, cArg, terminated, accepted,
                  testVars >>

\* ProcessThreadEpilogue: Data = Dequeue(); while (Data.has_value())
EpilogueDequeue(t) ==
  /\ tpc[t] = "epi_deq"
  /\ m_Mutex = t
  /\ tData' = [tData EXCEPT ![t] = Dequeue(m_Queue)[1]]
  /\ m_Queue' = Dequeue(m_Queue)[2]
  /\ m_Mutex' = NoOwner
  /\ tpc' = [tpc EXCEPT ![t] =
               IF has_value(Dequeue(m_Queue)[1]) THEN "epi_process" ELSE "set_finished"]
  /\ UNCHANGED << m_bIsRunning, m_bFinished, m_nSleepMs, m_bIsSleeping,
                  m_bIsSuspended, m_Thread, m_ConditionVar, tSleep, cpc, cArg,
                  terminated, accepted, processed, hist, testVars >>

\* ProcessThreadEpilogue: Process((*Data).nMessageID, *Data)
EpilogueProcess(t) ==
  /\ tpc[t] = "epi_process"
  /\ processed' = Append(processed, tData[t][1])
  /\ tpc' = [tpc EXCEPT ![t] = "epi_lock"]
  /\ tData' = [tData EXCEPT ![t] = NullOpt]
  /\ UNCHANGED << m_Queue, m_bIsRunning, m_bFinished, m_nSleepMs,
                  m_bIsSleeping, m_bIsSuspended, m_Mutex, m_Thread,
                  m_ConditionVar, tSleep, cpc, cArg, terminated, accepted,
                  hist, testVars >>

\* Execute: m_bFinished = true; the thread function returns.
ExecSetFinished(t) ==
  /\ tpc[t] = "set_finished"
  /\ m_bFinished' = TRUE
  /\ tpc' = [tpc EXCEPT ![t] = "exited"]
  /\ UNCHANGED << m_Queue, m_bIsRunning, m_nSleepMs, m_bIsSleeping,
                  m_bIsSuspended, m_Mutex, m_Thread, m_ConditionVar, tData,
                  tSleep, cpc, cArg, terminated, accepted, processed, hist,
                  testVars >>

\* The steps of the execution thread t that follow a sleep request; they are
\* enabled only after a call of Sleep().
ExecuteSleep(t) ==
  \/ ExecSleepSet(t)
  \/ ExecSleepEnd(t)
  \/ ExecSleepReset(t)

\* All other steps of the execution thread t.
Execute(t) ==
  \/ ExecPreamble(t)
  \/ ExecLoopCheck(t)
  \/ ExecWaitLock(t)
  \/ ExecWaitPred(t)
  \/ ExecWaitBlock(t)
  \/ ExecSleepCheck(t)
  \/ DequeueLock(t)
  \/ ExecDequeue(t)
  \/ ExecProcess(t)
  \/ EpilogueDequeue(t)
  \/ EpilogueProcess(t)
  \/ ExecSetFinished(t)

(***************************************************************************)
(* Public methods of the event-driven worker, run by the calling threads.  *)
(***************************************************************************)
\* Start: the two orders of "create the thread" and "set the flag".
\* if (not m_bIsRunning)
StartCheck(c) ==
  /\ cpc[c] = "idle"
  /\ hist.starts < MaxStarts
  /\ IF ~m_bIsRunning
     THEN /\ cpc' = [cpc EXCEPT ![c] = "start_spawn"]
          /\ hist' = [hist EXCEPT !.starts = @ + 1, !.stopped = FALSE]
     ELSE /\ cpc' = cpc
          /\ hist' = [hist EXCEPT !.starts = @ + 1, !.startsDone = @ + 1,
                                  !.stopped = FALSE]
  /\ UNCHANGED << m_Queue, m_bIsRunning, m_bFinished, m_nSleepMs,
                  m_bIsSleeping, m_bIsSuspended, m_Mutex, m_Thread,
                  m_ConditionVar, tpc, tData, tSleep, cArg, terminated,
                  accepted, processed, testVars >>

\* Start: std::thread(&CDaemon<T>::Execute, this) -- the new thread exists
\* and runs from here on; entry is the first position of its Execute.
Spawn(c, entry) ==
  /\ cpc[c] = "start_spawn"
  /\ tpc' = [tpc EXCEPT ![hist.spawned + 1] = entry]
  /\ cArg' = [cArg EXCEPT ![c] = hist.spawned + 1]
  /\ cpc' = [cpc EXCEPT ![c] = "start_assign"]
  /\ hist' = [hist EXCEPT !.spawned = @ + 1]
  /\ UNCHANGED << m_Queue, m_bIsRunning, m_bFinished, m_nSleepMs,
                  m_bIsSleeping, m_bIsSuspended, m_Mutex, m_Thread,
                  m_ConditionVar, tData, tSleep, terminated, accepted,
                  processed, testVars >>

StartSpawn(c) == Spawn(c, "preamble")

\* Start: m_Thread = <the new thread>.  Move assignment to a std::thread that
\* is still joinable calls std::terminate: the process and all its threads end.
StartAssign(c) ==
  /\ cpc[c] = "start_assign"
  /\ IF m_Thread # NoThread
     THEN /\ terminated' = TRUE
          /\ cpc' = [d \in Clients |-> "aborted"]
          /\ tpc' = [t \in Threads |-> IF tpc[t] = "none" THEN "none" ELSE "aborted"]
          /\ UNCHANGED m_Thread
     ELSE /\ m_Thread' = cArg[c]
          /\ cpc' = [cpc EXCEPT ![c] = "start_set"]
          /\ UNCHANGED << terminated, tpc >>
  /\ UNCHANGED << m_Queue, m_bIsRunning, m_bFinished, m_nSleepMs,
                  m_bIsSleeping, m_bIsSuspended, m_Mutex, m_ConditionVar,
                  tData, tSleep, cArg, accepted, processed, hist, testVars >>

\* Start that also clears the finished flag.
StartSetClearFinished(c) ==
  /\ cpc[c] = "start_set"
  /\ m_bIsRunning' = TRUE
  /\ m_bFinished' = FALSE
  /\ cpc' = [cpc EXCEPT ![c] = "idle"]
  /\ hist' = [hist EXCEPT !.startsDone = @ + 1]
  /\ cArg' = [cArg EXCEPT ![c] = 0]
  /\ UNCHANGED << m_Queue, m_nSleepMs, m_bIsSleeping, m_bIsSuspended,
                  m_Mutex, m_Thread, m_ConditionVar, tpc, tData, tSleep,
                  terminated, accepted, processed, testVars >>

\* Start: m_bIsRunning = true; return
StartSet(c) ==
  /\ cpc[c] = "start_set"
  /\ m_bIsRunning' = TRUE
  /\ cpc' = [cpc EXCEPT ![c] = "idle"]
  /\ hist' = [hist EXCEPT !.startsDone = @ + 1]
  /\ cArg' = [cArg EXCEPT ![c] = 0]
  /\ UNCHANGED << m_Queue, m_bFinished, m_nSleepMs, m_bIsSleeping,
                  m_bIsSuspended, m_Mutex, m_Thread, m_ConditionVar, tpc,
                  tData, tSleep, terminated, accepted, processed,
                  testVars >>

\* Stop is called: std::lock_guard lock(m_Mutex)
StopLock(c) ==
  /\ cpc[c] = "idle"
  /\ hist.stops < MaxStops
  /\ m_Mutex = NoOwner
  /\ m_Mutex' = c
  /\ cpc' = [cpc EXCEPT ![c] = "stop_clear"]
  /\ hist' = [hist EXCEPT !.stops = @ + 1,
                          !.snap[c] = Completed,
                          !.snapStarted[c] = hist.startsDone > 0]
  /\ UNCHANGED << m_Queue, m_bIsRunning, m_bFinished, m_nSleepMs,
                  m_bIsSleeping, m_bIsSuspended, m_Thread, m_ConditionVar,
                  tpc, tData, tSleep, cArg, terminated, accepted, processed,
                  testVars >>

\* Stop: m_bIsRunning = false; the lock's scope ends.
StopClear(c) ==
  /\ cpc[c] = "stop_clear"
  /\ m_Mutex = c
  /\ m_bIsRunning' = FALSE
  /\ m_Mutex' = NoOwner
  /\ cpc' = [cpc EXCEPT ![c] = "stop_notify"]
  /\ UNCHANGED << m_Queue, m_bFinished, m_nSleepMs, m_bIsSleeping,
                  m_bIsSuspended, m_Thread, m_ConditionVar, tpc, tData,
                  tSleep, cArg, terminated, accepted, processed, hist,
                  testVars >>

\* A Stop that does not notify the condition variable.
StopNoNotify(c) ==
  /\ cpc[c] = "stop_notify"
  /\ UNCHANGED << m_ConditionVar, tpc >>
  /\ cpc' = [cpc EXCEPT ![c] = "stop_joinable"]
  /\ UNCHANGED << m_Queue, m_bIsRunning, m_bFinished, m_nSleepMs,
                  m_bIsSleeping, m_bIsSuspended, m_Mutex, m_Thread,
                  tData, tSleep, cArg, terminated, accepted, processed, hist,
                  testVars >>

\* Stop: m_ConditionVar.notify_one()
StopNotify(c) ==
  /\ cpc[c] = "stop_notify"
  /\ NotifyOne
  /\ cpc' = [cpc EXCEPT ![c] = "stop_joinable"]
  /\ UNCHANGED << m_Queue, m_bIsRunning, m_bFinished, m_nSleepMs,
                  m_bIsSleeping, m_bIsSuspended, m_Mutex, m_Thread,
                  tData, tSleep, cArg, terminated, accepted, processed, hist,
                  testVars >>

\* Stop that returns without joining the execution thread.
StopNoJoin(c) ==
  /\ cpc[c] = "stop_joinable"
  /\ cpc' = [cpc EXCEPT ![c] = "idle"]
  /\ hist' = [hist EXCEPT !.stopsDone = @ + 1,
                          !.stopped = TRUE,
                          !.snap[c] = {},
                          !.snapStarted[c] = FALSE]
  /\ UNCHANGED << m_Queue, m_bIsRunning, m_bFinished, m_nSleepMs,
                  m_bIsSleeping, m_bIsSuspended, m_Mutex, m_Thread,
                  m_ConditionVar, tpc, tData, tSleep, cArg, terminated,
                  accepted, processed, testVars >>

\* Stop: if (m_Thread.joinable()); not joinable: return
StopJoinable(c) ==
  /\ cpc[c] = "stop_joinable"
  /\ IF m_Thread # NoThread
     THEN /\ cpc' = [cpc EXCEPT ![c] = "stop_join"]
          /\ hist' = hist
     ELSE /\ cpc' = [cpc EXCEPT ![c] = "idle"]
          /\ hist' = [hist EXCEPT !.stopsDone = @ + 1,
                                  !.stopped = TRUE,
                                  !.snap[c] = {},
                                  !.snapStarted[c] = FALSE]
  /\ UNCHANGED << m_Queue, m_bIsRunning, m_bFinished, m_nSleepMs,
                  m_bIsSleeping, m_bIsSuspended, m_Mutex, m_Thread,
                  m_ConditionVar, tpc, tData, tSleep, cArg, terminated,
                  accepted, processed, testVars >>

\* Stop: m_Thread.join() begins.  join() on a thread object that is no longer
\* joinable throws std::system_error.
StopJoinBegin(c) ==
  /\ cpc[c] = "stop_join"
  /\ IF m_Thread # NoThread
     THEN /\ cArg' = [cArg EXCEPT ![c] = m_Thread]
          /\ cpc' = [cpc EXCEPT ![c] = "stop_joining"]
          /\ hist' = hist
     ELSE /\ cArg' = cArg
          /\ cpc' = [cpc EXCEPT ![c] = "faulted"]
          /\ hist' = [hist EXCEPT !.faults = @ + 1]
  /\ UNCHANGED << m_Queue, m_bIsRunning, m_bFinished, m_nSleepMs,
                  m_bIsSleeping, m_bIsSuspended, m_Mutex, m_Thread,
                  m_ConditionVar, tpc, tData, tSleep, terminated, accepted,
                  processed, testVars >>

\* Stop: m_Thread.join() ends once the thread function has returned, and
\* leaves m_Thread not joinable.  When another caller joined the same thread
\* meanwhile the behaviour is undefined: the call throws, or returns as a
\* second successful join.
StopJoinEnd(c) ==
  /\ cpc[c] = "stop_joining"
  /\ tpc[cArg[c]] = "exited"
  /\ IF m_Thread = cArg[c]
     THEN /\ m_Thread' = NoThread
          /\ cpc' = [cpc EXCEPT ![c] = "idle"]
          /\ hist' = [hist EXCEPT !.stopsDone = @ + 1,
                                  !.stopped = TRUE,
                                  !.snap[c] = {},
                                  !.snapStarted[c] = FALSE]
     ELSE /\ m_Thread' = m_Thread
          /\ \/ /\ cpc' = [cpc EXCEPT ![c] = "faulted"]
                /\ hist' = [hist EXCEPT !.faults = @ + 1]
             \/ /\ cpc' = [cpc EXCEPT ![c] = "idle"]
                /\ hist' = [hist EXCEPT !.rejoined = @ + 1,
                                        !.stopsDone = @ + 1,
                                        !.stopped = TRUE,
                                        !.snap[c] = {},
                                        !.snapStarted[c] = FALSE]
  /\ cArg' = [cArg EXCEPT ![c] = 0]
  /\ UNCHANGED << m_Queue, m_bIsRunning, m_bFinished, m_nSleepMs,
                  m_bIsSleeping, m_bIsSuspended, m_Mutex, m_ConditionVar,
                  tpc, tData, tSleep, terminated, accepted, processed,
                  testVars >>

\* SafeAddMessage(SData(p, ...)) is called: std::lock_guard lock(m_Mutex)
AddLock(c, p) ==
  /\ cpc[c] = "idle"
  /\ hist.adds < MaxItems
  /\ m_Mutex = NoOwner
  /\ m_Mutex' = c
  /\ cArg' = [cArg EXCEPT ![c] = p]
  /\ cpc' = [cpc EXCEPT ![c] = "add_push"]
  /\ hist' = [hist EXCEPT !.adds = @ + 1,
                          !.addLate = @ \/ hist.starts > 0,
                          !.addStopped = hist.stopped /\ hist.startsDone > 0]
  /\ UNCHANGED << m_Queue, m_bIsRunning, m_bFinished, m_nSleepMs,
                  m_bIsSleeping, m_bIsSuspended, m_Thread, m_ConditionVar,
                  tpc, tData, tSleep, terminated, accepted, processed,
                  testVars >>

\* SafeAddMessage that drops the message unless the worker is running.
AddPushIfRunning(c) ==
  /\ cpc[c] = "add_push"
  /\ m_Mutex = c
  /\ m_Queue' = IF m_bIsRunning
                THEN QueuePush(m_Queue, SData(cArg[c], Len(accepted) + 1))
                ELSE m_Queue
  /\ accepted' = Append(accepted, SData(cArg[c], Len(accepted) + 1))
  /\ cArg' = [cArg EXCEPT ![c] = Len(accepted) + 1]
  /\ m_Mutex' = NoOwner
  /\ cpc' = [cpc EXCEPT ![c] = "add_notify"]
  /\ UNCHANGED << m_bIsRunning, m_bFinished, m_nSleepMs, m_bIsSleeping,
                  m_bIsSuspended, m_Thread, m_ConditionVar, tpc, tData,
                  tSleep, terminated, processed, hist, testVars >>

\* SafeAddMessage: m_Queue.push(std::move(Data)); the lock's scope ends.
\* The payload of the message is its number in push order.
AddPush(c) ==
  /\ cpc[c] = "add_push"
  /\ m_Mutex = c
  /\ m_Queue' = QueuePush(m_Queue, SData(cArg[c], Len(accepted) + 1))
  /\ accepted' = Append(accepted, SData(cArg[c], Len(accepted) + 1))
  /\ cArg' = [cArg EXCEPT ![c] = Len(accepted) + 1]
  /\ m_Mutex' = NoOwner
  /\ cpc' = [cpc EXCEPT ![c] = "add_notify"]
  /\ UNCHANGED << m_bIsRunning, m_bFinished, m_nSleepMs, m_bIsSleeping,
                  m_bIsSuspended, m_Thread, m_ConditionVar, tpc, tData,
                  tSleep, terminated, processed, hist, testVars >>

\* A SafeAddMessage that returns without notifying the condition variable.
AddNoNotify(c) ==
  /\ cpc[c] = "add_notify"
  /\ UNCHANGED << m_ConditionVar, tpc >>
  /\ cpc' = [cpc EXCEPT ![c] = "idle"]
  /\ cArg' = [cArg EXCEPT ![c] = 0]
  /\ hist' = [hist EXCEPT !.addStopped = FALSE]
  /\ UNCHANGED << m_Queue, m_bIsRunning, m_bFinished, m_nSleepMs,
                  m_bIsSleeping, m_bIsSuspended, m_Mutex, m_Thread,
                  tData, tSleep, terminated, accepted, processed,
                  testVars >>

\* SafeAddMessage: m_ConditionVar.notify_one(); return
AddNotify(c) ==
  /\ cpc[c] = "add_notify"
  /\ NotifyOne
  /\ cpc' = [cpc EXCEPT ![c] = "idle"]
  /\ cArg' = [cArg EXCEPT ![c] = 0]
  /\ hist' = [hist EXCEPT !.addStopped = FALSE]
  /\ UNCHANGED << m_Queue, m_bIsRunning, m_bFinished, m_nSleepMs,
                  m_bIsSleeping, m_bIsSuspended, m_Mutex, m_Thread,
                  tData, tSleep, terminated, accepted, processed,
                  testVars >>

\* Sleep(n) is called: if (not m_bIsSleeping); when the flag is set the call
\* returns at once.  A request is outstanding from its store until the
\* execution thread clears it; the call is accepted when the worker runs.
SleepCheck(c, n) ==
  /\ cpc[c] = "idle"
  /\ hist.sleeps < MaxSleeps
  /\ IF ~m_bIsSleeping
     THEN /\ cpc' = [cpc EXCEPT ![c] = "sleep_store"]
          /\ cArg' = [cArg EXCEPT ![c] = n]
          /\ hist' = [hist EXCEPT !.sleeps = @ + 1,
                                  !.overlap = m_nSleepMs > 0,
                                  !.accept = m_bIsRunning]
     ELSE /\ UNCHANGED << cpc, cArg >>
          /\ hist' = [hist EXCEPT !.sleeps = @ + 1]
  /\ UNCHANGED << m_Queue, m_bIsRunning, m_bFinished, m_nSleepMs,
                  m_bIsSleeping, m_bIsSuspended, m_Mutex, m_Thread,
                  m_ConditionVar, tpc, tData, tSleep, terminated, accepted,
                  processed, testVars >>

\* Sleep: m_nSleepMs = nMs, an atomic store made without the mutex.
SleepStore(c) ==
  /\ cpc[c] = "sleep_store"
  /\ m_nSleepMs' = cArg[c]
  /\ cpc' = [cpc EXCEPT ![c] = "sleep_notify"]
  /\ hist' = [hist EXCEPT !.pending =
                IF hist.accept /\ cArg[c] > 0 THEN @ + 1 ELSE @]
  /\ UNCHANGED << m_Queue, m_bIsRunning, m_bFinished, m_bIsSleeping,
                  m_bIsSuspended, m_Mutex, m_Thread, m_ConditionVar, tpc,
                  tData, tSleep, cArg, terminated, accepted, processed,
                  testVars >>

\* Sleep: m_ConditionVar.notify_one(); return
SleepNotify(c) ==
  /\ cpc[c] = "sleep_notify"
  /\ NotifyOne
  /\ cpc' = [cpc EXCEPT ![c] = "idle"]
  /\ cArg' = [cArg EXCEPT ![c] = 0]
  /\ hist' = [hist EXCEPT !.overlap = FALSE, !.accept = FALSE]
  /\ UNCHANGED << m_Queue, m_bIsRunning, m_bFinished, m_nSleepMs,
                  m_bIsSleeping, m_bIsSuspended, m_Mutex, m_Thread,
                  tData, tSleep, terminated, accepted, processed,
                  testVars >>

Sleep(c) ==
  \/ \E n \in Durations : SleepCheck(c, n)
  \/ SleepStore(c)
  \/ SleepNotify(c)


(***************************************************************************)
(* Specifications of the event-driven worker.                              *)
(*   SpecE:    one thread (Controller) calls Start and Stop, one call      *)
(*             after the other; every calling thread is a producer that    *)
(*             calls SafeAddMessage at any time.                           *)
(*   SpecRace: every calling thread calls Start, Stop and SafeAddMessage,  *)
(*             so that Start and Stop calls overlap.                       *)
(*   SpecPre:  main() enqueues everything before it calls Start, as in     *)
(*             the end-to-end scenario; nothing is enqueued afterwards.    *)
(***************************************************************************)
InitE ==
  /\ InitObject
  /\ script = << >>
  /\ qOut = << >>
  /\ draining = FALSE

Controller == 101

Start(c) == StartCheck(c) \/ StartSpawn(c) \/ StartAssign(c) \/ StartSet(c)

Stop(c) ==
  \/ StopLock(c)
  \/ StopClear(c)
  \/ StopNotify(c)
  \/ StopJoinable(c)
  \/ StopJoinBegin(c)
  \/ StopJoinEnd(c)

SafeAddMessage(c) ==
  \/ \E p \in Priorities : AddLock(c, p)
  \/ AddPush(c)
  \/ AddNotify(c)

NextE ==
  \/ Start(Controller)
  \/ Stop(Controller)
  \/ \E c \in Clients : SafeAddMessage(c)
  \/ \E t \in Threads : Execute(t) \/ SpuriousWakeup(t)

SpecE == InitE /\ [][NextE]_vars

NextRace ==
  \/ \E c \in Clients : Start(c) \/ Stop(c) \/ SafeAddMessage(c)
  \/ \E t \in Threads : Execute(t) \/ SpuriousWakeup(t)

SpecRace == InitE /\ [][NextRace]_vars

\* The payloads main() gives the messages of the end-to-end scenario are
\* their numbers 0, 1, 2 for "a", "b", "c".
EndToEndPriorities == << 5, 1, 3 >>

InitPre ==
  /\ InitObject
  /\ script \in { << >>, EndToEndPriorities }
  /\ qOut = << >>
  /\ draining = FALSE

NextPre ==
  \/ QEnqueueData
  \/ \E p \in Priorities : QSafeAddMessage(p)
  \/ Start(Controller)
  \/ Stop(Controller)
  \/ \E t \in Threads : Execute(t) \/ SpuriousWakeup(t)

SpecPre == InitPre /\ [][NextPre]_vars

(***************************************************************************)
(* SpecS: one life of the worker with sleep requests.  The Controller      *)
(* calls Start on the fresh worker, Sleep any number of times, and Stop    *)
(* once; the other calling threads are producers that call SafeAddMessage  *)
(* at any time, also before Start and after Stop.                          *)
(***************************************************************************)
FirstStart(c) ==
  \/ hist.starts = 0 /\ StartCheck(c)
  \/ StartSpawn(c)
  \/ StartAssign(c)
  \/ StartSet(c)

OnlyStop(c) ==
  \/ hist.stops = 0 /\ StopLock(c)
  \/ StopClear(c)
  \/ StopNotify(c)
  \/ StopJoinable(c)
  \/ StopJoinBegin(c)
  \/ StopJoinEnd(c)

NextS ==
  \/ FirstStart(Controller)
  \/ OnlyStop(Controller)
  \/ Sleep(Controller)
  \/ \E c \in Clients \ {Controller} : SafeAddMessage(c)
  \/ \E t \in Threads : Execute(t) \/ ExecuteSleep(t) \/ SpuriousWakeup(t)

SpecS == InitE /\ [][NextS]_vars

(***************************************************************************)
(* FairSpecS: SpecS under the fairness the scheduler gives: an execution   *)
(* thread that can take a step of Execute eventually takes it, and so does *)
(* a calling thread inside a call.  Nothing forces a caller to begin a     *)
(* call, and nothing forces a spurious wakeup.                             *)
(***************************************************************************)
CallInProgressS(c) ==
  \/ StartSpawn(c)
  \/ StartAssign(c)
  \/ StartSet(c)
  \/ AddPush(c)
  \/ AddNotify(c)
  \/ StopClear(c)
  \/ StopNotify(c)
  \/ StopJoinable(c)
  \/ StopJoinBegin(c)
  \/ StopJoinEnd(c)
  \/ SleepStore(c)
  \/ SleepNotify(c)

FairnessS ==
  /\ \A t \in Threads : WF_vars(Execute(t) \/ ExecuteSleep(t))
  /\ \A c \in Clients : WF_vars(CallInProgressS(c))

FairSpecS == InitE /\ [][NextS]_vars /\ FairnessS

(***************************************************************************)
(* FairSpecStop: one Start(), one Stop() and a producer, with no Sleep()   *)
(* call, under the same fairness.                                          *)
(***************************************************************************)
NextStop ==
  \/ FirstStart(Controller)
  \/ OnlyStop(Controller)
  \/ \E c \in Clients \ {Controller} : SafeAddMessage(c)
  \/ \E t \in Threads : Execute(t) \/ SpuriousWakeup(t)

FairnessStop ==
  /\ \A t \in Threads : WF_vars(Execute(t))
  /\ \A c \in Clients : WF_vars(CallInProgressS(c))

FairSpecStop == InitE /\ [][NextStop]_vars /\ FairnessStop

(***************************************************************************)
(* Stop() called by Process, that is from the execution thread t itself    *)
(* (lines 185 and 239-250).  The callback makes a plain call: it does not  *)
(* handle an exception of Stop(), which therefore leaves Process, Execute  *)
(* and the thread function, and std::terminate ends the process.           *)
(***************************************************************************)
\* Process calls Stop(): std::lock_guard lock(m_Mutex).  Process has not
\* returned, Data is still in scope.
SelfStopLock(t) ==
  /\ tpc[t] = "process"
  /\ m_Mutex = NoOwner
  /\ m_Mutex' = t
  /\ tpc' = [tpc EXCEPT ![t] = "ss_clear"]
  /\ hist' = [hist EXCEPT !.selfStop = TRUE]
  /\ UNCHANGED << m_Queue, m_bIsRunning, m_bFinished, m_nSleepMs,
                  m_bIsSleeping, m_bIsSuspended, m_Thread, m_ConditionVar,
                  tData, tSleep, cpc, cArg, terminated, accepted, processed,
                  testVars >>

\* Stop: m_bIsRunning = false; the lock's scope ends.
SelfStopClear(t) ==
  /\ tpc[t] = "ss_clear"
  /\ m_Mutex = t
  /\ m_bIsRunning' = FALSE
  /\ m_Mutex' = NoOwner
  /\ tpc' = [tpc EXCEPT ![t] = "ss_notify"]
  /\ UNCHANGED << m_Queue, m_bFinished, m_nSleepMs, m_bIsSleeping,
                  m_bIsSuspended, m_Thread, m_ConditionVar, tData, tSleep,
                  cpc, cArg, terminated, accepted, processed, hist,
                  testVars >>

\* Stop: m_ConditionVar.notify_one()
SelfStopNotify(t) ==
  /\ tpc[t] = "ss_notify"
  /\ IF m_ConditionVar = {}
     THEN /\ tpc' = [tpc EXCEPT ![t] = "ss_joinable"]
          /\ UNCHANGED m_ConditionVar
     ELSE \E u \in m_ConditionVar :
            /\ m_ConditionVar' = m_ConditionVar \ {u}
            /\ tpc' = [tpc EXCEPT ![u] = "wait_lock", ![t] = "ss_joinable"]
  /\ UNCHANGED << m_Queue, m_bIsRunning, m_bFinished, m_nSleepMs,
                  m_bIsSleeping, m_bIsSuspended, m_Mutex, m_Thread, tData,
                  tSleep, cpc, cArg, terminated, accepted, processed, hist,
                  testVars >>

\* A Stop that finds m_Thread not joinable and returns to Process.
SelfStopNotJoinable(t) ==
  /\ tpc[t] = "ss_joinable"
  /\ tpc' = [tpc EXCEPT ![t] = "process"]
  /\ UNCHANGED << m_Queue, m_bIsRunning, m_bFinished, m_nSleepMs,
                  m_bIsSleeping, m_bIsSuspended, m_Mutex, m_Thread,
                  m_ConditionVar, tData, tSleep, cpc, cArg, terminated,
                  accepted, processed, hist, testVars >>

\* Stop: if (m_Thread.joinable()); when it is not, Stop() returns to Process.
SelfStopJoinable(t) ==
  /\ tpc[t] = "ss_joinable"
  /\ tpc' = [tpc EXCEPT ![t] = IF m_Thread # NoThread THEN "ss_join"
                                                       ELSE "process"]
  /\ UNCHANGED << m_Queue, m_bIsRunning, m_bFinished, m_nSleepMs,
                  m_bIsSleeping, m_bIsSuspended, m_Mutex, m_Thread,
                  m_ConditionVar, tData, tSleep, cpc, cArg, terminated,
                  accepted, processed, hist, testVars >>

\* std::terminate: the process and all its threads end.
Terminate ==
  /\ terminated' = TRUE
  /\ cpc' = [d \in Clients |-> "aborted"]
  /\ tpc' = [u \in Threads |-> IF tpc[u] = "none" THEN "none" ELSE "aborted"]

\* Stop: m_Thread.join().  When m_Thread is the calling thread itself the
\* thread library either reports the deadlock, and join() throws
\* std::system_error (resource_deadlock_would_occur), or it does not, and
\* the thread waits for its own end for ever.  join() on a thread that is not
\* joinable throws as well.  When m_Thread is another thread, join() returns
\* once that thread has ended.
SelfStopJoin(t) ==
  /\ tpc[t] = "ss_join"
  /\ \/ /\ m_Thread = t
        /\ \/ /\ tpc' = [tpc EXCEPT ![t] = "ss_blocked"]
              /\ UNCHANGED << cpc, terminated, m_Thread >>
           \/ /\ Terminate
              /\ UNCHANGED m_Thread
     \/ /\ m_Thread = NoThread
        /\ Terminate
        /\ UNCHANGED m_Thread
     \/ /\ m_Thread \notin {t, NoThread}
        /\ tpc[m_Thread] = "exited"
        /\ m_Thread' = NoThread
        /\ tpc' = [tpc EXCEPT ![t] = "process"]
        /\ UNCHANGED << cpc, terminated >>
  /\ UNCHANGED << m_Queue, m_bIsRunning, m_bFinished, m_nSleepMs,
                  m_bIsSleeping, m_bIsSuspended, m_Mutex, m_ConditionVar,
                  tData, tSleep, cArg, accepted, processed, hist, testVars >>

SelfStop(t) ==
  \/ SelfStopLock(t)
  \/ SelfStopClear(t)
  \/ SelfStopNotify(t)
  \/ SelfStopJoinable(t)
  \/ SelfStopJoin(t)

(***************************************************************************)
(* SpecSelf: one Start(), a producer, and a Process that may call Stop().  *)
(***************************************************************************)
NextSelf ==
  \/ FirstStart(Controller)
  \/ \E c \in Clients \ {Controller} : SafeAddMessage(c)
  \/ \E t \in Threads : Execute(t) \/ SelfStop(t) \/ SpuriousWakeup(t)

SpecSelf == InitE /\ [][NextSelf]_vars

(***************************************************************************)
(* The event-driven worker when Stop is never called, under the fairness   *)
(* the scheduler gives: a thread that can take a step of the code it is    *)
(* running eventually takes it.  Nothing forces a caller to begin a call,  *)
(* and nothing forces a spurious wakeup.                                   *)
(***************************************************************************)
NextNoStop ==
  \/ Start(Controller)
  \/ \E c \in Clients : SafeAddMessage(c)
  \/ \E t \in Threads : Execute(t) \/ SpuriousWakeup(t)

CallInProgress(c) ==
  \/ StartSpawn(c)
  \/ StartAssign(c)
  \/ StartSet(c)
  \/ AddPush(c)
  \/ AddNotify(c)

FairnessE ==
  /\ \A t \in Threads : WF_vars(Execute(t))
  /\ \A c \in Clients : WF_vars(CallInProgress(c))

FairSpecE == InitE /\ [][NextNoStop]_vars /\ FairnessE

(***************************************************************************)
(* Polling worker (src/include/ThreadWrapper/Daemon.cc).                   *)
(***************************************************************************)
\* Execute: while (m_bIsRunning); false: the thread function returns.
PExecLoopCheck(t) ==
  /\ tpc[t] = "p_loop"
  /\ tpc' = [tpc EXCEPT ![t] = IF m_bIsRunning THEN "p_susp" ELSE "exited"]
  /\ UNCHANGED << m_Queue, m_bIsRunning, m_bFinished, m_nSleepMs,
                  m_bIsSleeping, m_bIsSuspended, m_Mutex, m_Thread,
                  m_ConditionVar, tData, tSleep, cpc, cArg, terminated,
                  accepted, processed, hist, testVars >>

\* Execute: if (m_bIsSuspended) { Sleep(50); continue; } ProcessPreamble();
\* ProcessPreamble is empty in the base class.
PExecSuspendCheck(t) ==
  /\ tpc[t] = "p_susp"
  /\ tpc' = [tpc EXCEPT ![t] = IF m_bIsSuspended THEN "p_loop" ELSE "p_deq_lock"]
  /\ UNCHANGED << m_Queue, m_bIsRunning, m_bFinished, m_nSleepMs,
                  m_bIsSleeping, m_bIsSuspended, m_Mutex, m_Thread,
                  m_ConditionVar, tData, tSleep, cpc, cArg, terminated,
                  accepted, processed, hist, testVars >>

\* Dequeue: std::lock_guard lock(m_Mutex)
PDequeueLock(t) ==
  /\ tpc[t] = "p_deq_lock"
  /\ m_Mutex = NoOwner
  /\ m_Mutex' = t
  /\ tpc' = [tpc EXCEPT ![t] = "p_deq"]
  /\ UNCHANGED << m_Queue, m_bIsRunning, m_bFinished, m_nSleepMs,
                  m_bIsSleeping, m_bIsSuspended, m_Thread, m_ConditionVar,
                  tData, tSleep, cpc, cArg, terminated, accepted, processed,
                  hist, testVars >>

\* Execute: Data = Dequeue(); if (not Data.has_value()) continue;
PExecDequeue(t) ==
  /\ tpc[t] = "p_deq"
  /\ m_Mutex = t
  /\ tData' = [tData EXCEPT ![t] = Dequeue(m_Queue)[1]]
  /\ m_Queue' = Dequeue(m_Queue)[2]
  /\ m_Mutex' = NoOwner
  /\ tpc' = [tpc EXCEPT ![t] =
               IF has_value(Dequeue(m_Queue)[1]) THEN "p_process" ELSE "p_loop"]
  /\ hist' = [hist EXCEPT !.deqAfterStop =
                IF hist.stopped /\ has_value(Dequeue(m_Queue)[1]) THEN @ + 1 ELSE @]
  /\ UNCHANGED << m_bIsRunning, m_bFinished, m_nSleepMs, m_bIsSleeping,
                  m_bIsSuspended, m_Thread, m_ConditionVar, tSleep, cpc, cArg,
                  terminated, accepted, processed, testVars >>

\* Execute: Process((*Data).nMessageID, *Data); Sleep(m_nRateMs);
PExecProcess(t) ==
  /\ tpc[t] = "p_process"
  /\ processed' = Append(processed, tData[t][1])
  /\ tData' = [tData EXCEPT ![t] = NullOpt]
  /\ tpc' = [tpc EXCEPT ![t] = "p_loop"]
  /\ UNCHANGED << m_Queue, m_bIsRunning, m_bFinished, m_nSleepMs,
                  m_bIsSleeping, m_bIsSuspended, m_Mutex, m_Thread,
                  m_ConditionVar, tSleep, cpc, cArg, terminated, accepted,
                  hist, testVars >>

\* All steps of the execution thread t of the polling worker.
PExecute(t) ==
  \/ PExecLoopCheck(t)
  \/ PExecSuspendCheck(t)
  \/ PDequeueLock(t)
  \/ PExecDequeue(t)
  \/ PExecProcess(t)

\* Start of the polling worker is the Start of the event-driven worker, line
\* by line; the new thread begins at the loop test of its Execute.
PStartSpawn(c) == Spawn(c, "p_loop")

PStart(c) == StartCheck(c) \/ PStartSpawn(c) \/ StartAssign(c) \/ StartSet(c)

\* Stop: m_bIsRunning = false
PStop(c) ==
  /\ cpc[c] = "idle"
  /\ hist.stops < MaxStops
  /\ m_bIsRunning' = FALSE
  /\ hist' = [hist EXCEPT !.stops = @ + 1, !.stopsDone = @ + 1,
                          !.stopped = TRUE, !.deqAfterStop = 0]
  /\ UNCHANGED << m_Queue, m_bFinished, m_nSleepMs, m_bIsSleeping,
                  m_bIsSuspended, m_Mutex, m_Thread, m_ConditionVar, tpc,
                  tData, tSleep, cpc, cArg, terminated, accepted, processed,
                  testVars >>

\* Suspend: m_bIsSuspended = true
Suspend(c) ==
  /\ cpc[c] = "idle"
  /\ hist.suspends < MaxSuspends
  /\ m_bIsSuspended' = TRUE
  /\ hist' = [hist EXCEPT !.suspends = @ + 1,
                          !.batch = IF m_bIsSuspended THEN @ ELSE {},
                          !.spoiled = IF m_bIsSuspended THEN @ ELSE FALSE]
  /\ UNCHANGED << m_Queue, m_bIsRunning, m_bFinished, m_nSleepMs,
                  m_bIsSleeping, m_Mutex, m_Thread, m_ConditionVar, tpc,
                  tData, tSleep, cpc, cArg, terminated, accepted, processed,
                  testVars >>

\* Resume: m_bIsSuspended = false
Resume(c) ==
  /\ cpc[c] = "idle"
  /\ m_bIsSuspended' = FALSE
  /\ UNCHANGED << m_Queue, m_bIsRunning, m_bFinished, m_nSleepMs,
                  m_bIsSleeping, m_Mutex, m_Thread, m_ConditionVar, tpc,
                  tData, tSleep, cpc, cArg, terminated, accepted, processed,
                  hist, testVars >>

\* Detach: m_Thread.detach(); on a thread object that is not joinable it
\* throws std::system_error.
Detach(c) ==
  /\ cpc[c] = "idle"
  /\ IF m_Thread # NoThread
     THEN /\ m_Thread' = NoThread
          /\ UNCHANGED << cpc, hist >>
     ELSE /\ cpc' = [cpc EXCEPT ![c] = "faulted"]
          /\ hist' = [hist EXCEPT !.faults = @ + 1]
          /\ UNCHANGED m_Thread
  /\ UNCHANGED << m_Queue, m_bIsRunning, m_bFinished, m_nSleepMs,
                  m_bIsSleeping, m_bIsSuspended, m_Mutex, m_ConditionVar,
                  tpc, tData, tSleep, cArg, terminated, accepted, processed,
                  testVars >>

\* SafeAddMessage(SData(p, ...)) is called: std::lock_guard lock(m_Mutex)
PAddLock(c, p) ==
  /\ cpc[c] = "idle"
  /\ hist.adds < MaxItems
  /\ m_Mutex = NoOwner
  /\ m_Mutex' = c
  /\ cArg' = [cArg EXCEPT ![c] = p]
  /\ cpc' = [cpc EXCEPT ![c] = "p_add_push"]
  /\ hist' = [hist EXCEPT !.adds = @ + 1,
                          !.addLate = @ \/ hist.starts > 0]
  /\ UNCHANGED << m_Queue, m_bIsRunning, m_bFinished, m_nSleepMs,
                  m_bIsSleeping, m_bIsSuspended, m_Thread, m_ConditionVar,
                  tpc, tData, tSleep, terminated, accepted, processed,
                  testVars >>

\* SafeAddMessage: m_Queue.push(std::move(Data)); the lock's scope ends; return
PAddPush(c) ==
  /\ cpc[c] = "p_add_push"
  /\ m_Mutex = c
  /\ m_Queue' = QueuePush(m_Queue, SData(cArg[c], Len(accepted) + 1))
  /\ accepted' = Append(accepted, SData(cArg[c], Len(accepted) + 1))
  /\ cArg' = [cArg EXCEPT ![c] = 0]
  /\ m_Mutex' = NoOwner
  /\ cpc' = [cpc EXCEPT ![c] = "idle"]
  /\ hist' = [hist EXCEPT !.batch = IF m_bIsSuspended
                                     THEN @ \cup {Len(accepted) + 1} ELSE @,
                          !.spoiled = @ \/ (~m_bIsSuspended /\ hist.batch # {})]
  /\ UNCHANGED << m_bIsRunning, m_bFinished, m_nSleepMs, m_bIsSleeping,
                  m_bIsSuspended, m_Thread, m_ConditionVar, tpc, tData,
                  tSleep, terminated, processed, testVars >>

PSafeAddMessage(c) ==
  \/ \E p \in Priorities : PAddLock(c, p)
  \/ PAddPush(c)

(***************************************************************************)
(* Specifications of the polling worker: one thread (Controller) calls     *)
(* Start, Stop, Suspend, Resume and Detach, one call after the other;      *)
(* every calling thread is a producer.  FairSpecP adds the fairness the    *)
(* scheduler gives to threads that are running code.                       *)
(***************************************************************************)
NextP ==
  \/ PStart(Controller)
  \/ PStop(Controller)
  \/ Suspend(Controller)
  \/ Resume(Controller)
  \/ Detach(Controller)
  \/ \E c \in Clients : PSafeAddMessage(c)
  \/ \E t \in Threads : PExecute(t)

SpecP == InitE /\ [][NextP]_vars

PCallInProgress(c) ==
  \/ PStartSpawn(c)
  \/ StartAssign(c)
  \/ StartSet(c)
  \/ PAddPush(c)

FairnessP ==
  /\ \A t \in Threads : WF_vars(PExecute(t))
  /\ \A c \in Clients : WF_vars(PCallInProgress(c))

FairSpecP == InitE /\ [][NextP]_vars /\ FairnessP

(***************************************************************************)
(* Properties.                                                             *)
(***************************************************************************)
ProcessedIds == { processed[i].Data : i \in 1..Len(processed) }

\* Number of places that hold message x: the mailbox, the Data of an
\* execution thread, the messages already passed to Process.
Places(x) ==
  CountOf(m_Queue, x)
    + Cardinality({ t \in Threads : tData[t] = Some(x) })
    + CountOf(processed, x)

\* A Stop() call of c returns in this step.
StopReturns(c) ==
  /\ cpc[c] \in {"stop_joinable", "stop_joining"}
  /\ cpc'[c] = "idle"

\* C1: whenever Stop() returns on a worker on which Start() had returned
\* before the call, and no SafeAddMessage call overlaps the Stop() call, the
\* mailbox is empty, Finished() is true and every message whose SafeAddMessage
\* returned before Stop() was called has been passed to Process.
C1_GracefulShutdown ==
  [][ \A c \in Clients :
        ( /\ StopReturns(c)
          /\ hist.snapStarted[c]
          /\ hist.adds = Cardinality(hist.snap[c]) )
        => ( /\ QueueEmpty(m_Queue')
             /\ m_bFinished'
             /\ hist.snap[c] \subseteq ProcessedIds' ) ]_vars

\* C2: every message accepted by SafeAddMessage is in exactly one place (the
\* mailbox, the Data of the execution thread, or the processed messages), and
\* nothing is in any of these places that was not accepted.
C2_NoDuplicationNoLoss ==
  /\ \A x \in Range(accepted) : Places(x) = 1
  /\ Range(m_Queue) \subseteq Range(accepted)
  /\ Range(processed) \subseteq Range(accepted)
  /\ \A t \in Threads : has_value(tData[t]) => tData[t][1] \in Range(accepted)
  /\ \A i, j \in 1..Len(accepted) : accepted[i] = accepted[j] => i = j

\* C2 witness: both producers are inside SafeAddMessage while the execution
\* thread holds one message for Process and another one is in the mailbox.
C2_Witness ==
  /\ \E t \in Threads : tpc[t] = "process" /\ has_value(tData[t])
  /\ Len(m_Queue) = 1
  /\ \A c \in Clients : cpc[c] = "add_notify"

\* C3: with Stop() never called, every message accepted by SafeAddMessage on a
\* worker whose Start() has returned is eventually passed to Process.
C3_EventualDelivery ==
  \A i \in 1..MaxItems :
    (hist.startsDone > 0 /\ Len(accepted) >= i) ~> (i \in ProcessedIds)

\* The values main() got from its Dequeue calls that hold a message.
Dequeued == SelectSeq(qOut, has_value)
DequeuedPrio == [ i \in 1..Len(Dequeued) |-> Dequeued[i][1].nPriority ]

\* What one Dequeue call of main() does.
DequeueStepOk ==
  (qOut' # qOut) =>
    LET r == qOut'[Len(qOut')]
    IN  IF QueueEmpty(m_Queue)
        THEN r = NullOpt /\ m_Queue' = m_Queue
        ELSE /\ has_value(r)
             /\ r[1].nPriority = MinPrio(m_Queue)
             /\ SameMultiset(<< r[1] >> \o m_Queue', m_Queue)

\* C4: after any sequence of SafeAddMessage calls, each Dequeue removes a
\* message of minimal nPriority among those present; the dequeued priorities
\* are non-decreasing and, once the mailbox is empty, are the multiset of the
\* enqueued priorities (the 13 priorities of the test come out as
\* 0,0,1,1,1,3,4,5,10,20,40,50,50); Dequeue on an empty mailbox returns empty
\* and leaves it unchanged.
C4_MailboxOrdering ==
  /\ [][DequeueStepOk]_vars
  /\ [](NonDecreasing(DequeuedPrio))
  /\ []((draining /\ QueueEmpty(m_Queue))
          => SameMultiset(DequeuedPrio, PrioOf(accepted)))
  /\ []((draining /\ QueueEmpty(m_Queue) /\ PrioOf(accepted) = ExamplePriorities)
          => DequeuedPrio = ExampleSorted)

\* C4 witness: the 13 messages of the test were dequeued in ascending order
\* and one more Dequeue returned empty.
C4_Witness ==
  /\ PrioOf(accepted) = ExamplePriorities
  /\ DequeuedPrio = ExampleSorted
  /\ Len(qOut) = Len(ExamplePriorities) + 1
  /\ qOut[Len(qOut)] = NullOpt

\* C5: when every message is enqueued before Start() and none afterwards,
\* Process observes the messages in ascending priority order (5,1,3 with
\* payloads a,b,c are processed b,c,a), all of them once the execution thread
\* has exited, whether they are processed in the loop or in the epilogue.
C5_EndToEndPriority ==
  /\ NonDecreasing(PrioOf(processed))
  /\ (\E t \in Threads : tpc[t] = "exited")
       => SameMultiset(processed, accepted)
  /\ (PrioOf(accepted) = EndToEndPriorities /\ Len(processed) = 3)
       => [ i \in 1..3 |-> processed[i].Data ] = << 1, 2, 0 >>

\* C5 witness: 5,1,3 were processed b,c,a, the first in the loop, the rest in
\* the epilogue after Stop().
C5_Witness ==
  /\ PrioOf(accepted) = EndToEndPriorities
  /\ [ i \in 1..Len(processed) |-> processed[i].Data ] = << 1, 2, 0 >>
  /\ hist.loopDone = 1
  /\ hist.stopsDone = 1

\* C6: Start() calls with no Stop() call spawn at most one execution thread,
\* also when two threads call Start() at the same time.
C6_IdempotentStart == (hist.stops = 0) => (hist.spawned <= 1)

\* C7: no Stop() call faults and no execution thread is joined twice, also
\* when two Stop() calls overlap.
C7_StopTwice == hist.faults = 0 /\ hist.rejoined = 0

\* The execution thread t of the polling worker is inside the loop of Execute:
\* it passed the test of m_bIsRunning and has not come back to it.
InLoop(t) == tpc[t] \in {"p_susp", "p_deq_lock", "p_deq", "p_process"}

\* C8: at most one execution thread is inside the execution loop at any time,
\* so at most one Process call is in progress.
C8_SingleExecutionThread ==
  /\ Cardinality({ t \in Threads : InLoop(t) }) <= 1
  /\ Cardinality({ t \in Threads : tpc[t] = "p_process" }) <= 1

\* C9: between the return of Suspend() and the call of Resume(), that is while
\* m_bIsSuspended stays true, no message leaves the mailbox.
C9_SuspendStopsDequeue ==
  [][ (m_bIsSuspended /\ m_bIsSuspended') => Len(m_Queue') >= Len(m_Queue) ]_vars

\* The processed messages that were enqueued during the latest suspension.
BatchProcessed ==
  LET InBatch(x) == x.Data \in hist.batch
  IN  SelectSeq(processed, InBatch)

\* C10: messages enqueued while the worker is suspended stay in the mailbox
\* until Resume(); with nothing else enqueued they are processed in ascending
\* priority order, and each of them is eventually passed to Process once the
\* worker is resumed and as long as it is running.
C10_ResumeDelivers ==
  /\ [](m_bIsSuspended =>
          \A i \in hist.batch : \E k \in 1..Len(m_Queue) : m_Queue[k].Data = i)
  /\ [](~hist.spoiled => NonDecreasing(PrioOf(BatchProcessed)))
  /\ \A i \in 1..MaxItems :
       (i \in hist.batch /\ ~m_bIsSuspended /\ m_bIsRunning)
         ~> (i \in ProcessedIds \/ m_bIsSuspended \/ ~m_bIsRunning)

\* C11: a Sleep() call made while an earlier request is pending or active
\* (the stored duration is not yet cleared) has no effect: it never gets to
\* store its duration or to signal the condition variable.
C11_OverlappingSleepIgnored ==
  \A c \in Clients : hist.overlap => cpc[c] # "sleep_notify"

\* C12: an accepted Sleep(n), n > 0, is never lost: the execution thread
\* never clears the stored duration while an accepted request has not been
\* paused for, and every pause is for a duration greater than 0.
C12_OnePausePerRequest ==
  [][ \A t \in Threads :
        /\ (tpc[t] = "sleep_reset" /\ tpc'[t] = "loop") => hist.pending = 0
        /\ (tpc[t] = "sleep_set" /\ tpc'[t] = "sleeping") => tSleep[t] > 0
    ]_vars

\* A step of the SafeAddMessage call of client c.
AddStep(c) ==
  /\ cpc'[c] # cpc[c]
  /\ cpc[c] \in {"add_push", "add_notify"} \/ cpc'[c] = "add_push"

\* C13: in every lifecycle state of the worker a step of SafeAddMessage
\* leaves the running flag, the sleeping flag, the pending sleep duration
\* and the finished flag unchanged and raises no error; its push adds
\* exactly the given message to the mailbox, its other steps leave the
\* mailbox unchanged.
C13_EnqueueFrame ==
  [][ \A c \in Clients : AddStep(c) =>
        /\ UNCHANGED << m_bIsRunning, m_bIsSleeping, m_nSleepMs, m_bFinished >>
        /\ cpc'[c] \in {"add_push", "add_notify", "idle"}
        /\ IF cpc[c] = "add_push"
           THEN /\ Len(m_Queue') = Len(m_Queue) + 1
                /\ SameMultiset(m_Queue',
                       Append(m_Queue, SData(cArg[c], Len(accepted) + 1)))
           ELSE m_Queue' = m_Queue
    ]_vars

\* A message has just been pushed while the execution thread pauses and
\* stop is already requested.
C13_Witness ==
  /\ \E c \in Clients : cpc[c] = "add_notify"
  /\ m_bIsSleeping
  /\ ~m_bIsRunning
  /\ hist.stops > 0
  /\ Len(m_Queue) > 0

\* Positions at which an execution thread, or a calling thread, is inside a
\* scope that locked m_Mutex: the gate predicate and the pop of Dequeue; the
\* push of SafeAddMessage and the store of Stop.
ThreadLocked == {"wait_pred", "wait_block", "deq", "epi_deq"}
ClientLocked == {"add_push", "stop_clear"}

\* C14: a thread is at a position that reads or changes the mailbox only
\* with the mutex held, and holds the mutex at no other position, so never
\* while Process or a hook runs; at most one thread is inside a locked scope;
\* every step that changes the mailbox is taken by the holder of the mutex.
C14_LockDiscipline ==
  /\ [](\A t \in Threads : (tpc[t] \in ThreadLocked) <=> (m_Mutex = t))
  /\ [](\A c \in Clients : (cpc[c] \in ClientLocked) <=> (m_Mutex = c))
  /\ [](Cardinality({ t \in Threads : tpc[t] \in ThreadLocked })
          + Cardinality({ c \in Clients : cpc[c] \in ClientLocked }) <= 1)
  /\ [][ m_Queue' # m_Queue =>
           \/ \E t \in Threads : m_Mutex = t /\ tpc'[t] # tpc[t]
           \/ \E c \in Clients : m_Mutex = c /\ cpc'[c] # cpc[c] ]_vars

\* A producer is inside the locked scope of SafeAddMessage while the
\* execution thread is in Process.
C14_Witness ==
  /\ \E t \in Threads : tpc[t] = "process"
  /\ \E c \in Clients : cpc[c] = "add_push" /\ m_Mutex = c

\* The wait of execution thread t: a wakeup leads to the predicate again,
\* a false predicate leads to blocking, and the wait is left only by the
\* predicate being true with the mutex held.
GateStep(t) ==
  /\ tpc[t] = "waiting" => tpc'[t] \in {"waiting", "wait_lock"}
  /\ tpc[t] = "wait_lock" => tpc'[t] \in {"wait_lock", "wait_pred"}
  /\ tpc[t] = "wait_pred" =>
       \/ tpc'[t] = "wait_pred"
       \/ tpc'[t] = "sleep_check" /\ m_Mutex = t /\ WaitPredicate
       \/ tpc'[t] = "wait_block" /\ m_Mutex = t /\ ~WaitPredicate
  /\ tpc[t] = "wait_block" => tpc'[t] \in {"wait_block", "waiting"}

\* The worker runs with nothing to do.
Idle == m_bIsRunning /\ QueueEmpty(m_Queue) /\ m_nSleepMs = 0

\* C15: the execution thread leaves the wait only when the predicate is true
\* under the mutex, and re-enters it otherwise; hence while the worker runs
\* with an empty mailbox and no pending sleep request no execution thread is
\* past the gate on its way to ProcessPreQueue and Dequeue.
C15_GatePredicate ==
  /\ [][ \A t \in Threads : GateStep(t) ]_vars
  /\ [](Idle => \A t \in Threads : tpc[t] \notin {"sleep_check", "deq_lock", "deq"})

\* Positions of an execution thread inside ProcessThreadEpilogue and after it.
AfterLoop == {"epi_lock", "epi_deq", "epi_process", "set_finished", "exited"}

\* C16: m_bFinished changes only from false to true, so it becomes true once
\* and is never cleared, also when Start() follows Stop() (the second
\* execution thread assigns true to the flag that is true already).  Every
\* assignment is made by an execution thread at the end of Execute: it left the
\* loop by reading m_bIsRunning as false, and the last Dequeue of
\* ProcessThreadEpilogue found the mailbox empty.
C16_FinishedFlag ==
  /\ [][ m_bFinished => m_bFinished' ]_vars
  /\ [][ m_bFinished' # m_bFinished =>
           \E t \in Threads : tpc[t] = "set_finished" /\ tpc'[t] = "exited" ]_vars
  /\ [][ \A t \in Threads :
           /\ (tpc'[t] \in AfterLoop /\ tpc[t] \notin AfterLoop) =>
                tpc[t] = "loop" /\ ~m_bIsRunning
           /\ (tpc'[t] = "set_finished" /\ tpc[t] # "set_finished") =>
                tpc[t] = "epi_deq" /\ m_Mutex = t /\ QueueEmpty(m_Queue)
           /\ (tpc'[t] = "exited" /\ tpc[t] # "exited") =>
                tpc[t] = "set_finished" /\ m_bFinished' ]_vars
  /\ [](\A t \in Threads : tpc[t] = "exited" => m_bFinished)

\* The worker was started again after Stop(), and the second execution
\* thread has set the flag as well.
C16_Witness ==
  /\ hist.spawned = 2
  /\ tpc[1] = "exited"
  /\ tpc[2] = "exited"
  /\ m_bFinished
  /\ hist.stopsDone = 2

\* Stop() has returned after a Start() call had returned, and Start() has not
\* been called again.
StoppedAfterStart == hist.stopped /\ hist.startsDone > 0

\* While the worker stays stopped nothing is passed to Process, nothing
\* leaves the mailbox and no call faults.
StoppedStep ==
  /\ processed' = processed
  /\ Len(m_Queue') >= Len(m_Queue)
  /\ Range(m_Queue) \subseteq Range(m_Queue')
  /\ hist'.faults = hist.faults
  /\ \A c \in Clients : AddStep(c) /\ cpc[c] = "add_push" =>
       /\ Len(m_Queue') = Len(m_Queue) + 1
       /\ cpc'[c] = "add_notify"

\* C17, as stated: after Stop() has returned IsRunning() is false and
\* Finished() is true; SafeAddMessage then succeeds and its message stays in
\* the mailbox, unprocessed, as long as Start() is not called again.
C17_EnqueueAfterStop ==
  /\ [](hist.stopped => ~m_bIsRunning /\ m_bFinished)
  /\ [][ (hist.stopped /\ hist'.stopped) => StoppedStep ]_vars

\* C17, for a worker on which Start() had returned before Stop() was called:
\* the execution thread has exited, IsRunning() is false and Finished() is
\* true; SafeAddMessage succeeds and its message stays in the mailbox,
\* unprocessed, as long as Start() is not called again.
C17_EnqueueAfterStopStarted ==
  /\ [](StoppedAfterStart =>
          /\ ~m_bIsRunning
          /\ m_bFinished
          /\ \A t \in Threads : tpc[t] \in {"none", "exited"})
  /\ [][ (StoppedAfterStart /\ StoppedAfterStart') => StoppedStep ]_vars

\* A SafeAddMessage call made after Stop() returned has pushed its message.
C17_Witness ==
  /\ StoppedAfterStart
  /\ hist.addStopped
  /\ cpc[Controller] = "idle"
  /\ \E c \in Clients \ {Controller} : cpc[c] = "add_notify"
  /\ Len(m_Queue) > 0

\* C18: Stop() of the polling worker only clears the running flag and
\* returns; an execution thread exits at its loop check without touching the
\* mailbox; after a Stop() call, and as long as Start() is not called again,
\* at most one more message is dequeued.
C18_ImmediateShutdown ==
  /\ [][ hist'.stops # hist.stops =>
           /\ ~m_bIsRunning'
           /\ UNCHANGED << m_Queue, m_Thread, tpc, cpc, processed >> ]_vars
  /\ [][ \A t \in Threads : (tpc'[t] = "exited" /\ tpc[t] # "exited") =>
           /\ tpc[t] = "p_loop"
           /\ ~m_bIsRunning
           /\ UNCHANGED << m_Queue, processed >> ]_vars
  /\ [](hist.stopped => hist.deqAfterStop <= 1)

\* Positions of an execution thread at the gate: before, in and after the
\* evaluation of the wait predicate, and blocked.
AtGate == {"wait_lock", "wait_pred", "wait_block", "waiting"}

\* C19: when the only Sleep(n), n > 0, has stored its duration while the
\* execution thread is at the gate of a running worker with an empty
\* mailbox, the thread eventually starts the pause, with no SafeAddMessage,
\* Sleep or Stop call being made.
C19_SleepWakesIdleWorker ==
  \A t \in Threads :
    (/\ tpc[t] \in AtGate
     /\ m_bIsRunning
     /\ QueueEmpty(m_Queue)
     /\ m_nSleepMs > 0)
      ~> (\/ tpc[t] = "sleeping"
          \/ hist.sleeps > 1
          \/ hist.adds > 0
          \/ hist.stops > 0)

\* Positions of a calling thread inside Stop().
InStop == {"stop_clear", "stop_notify", "stop_joinable", "stop_join",
           "stop_joining"}

\* C20: a Stop() call that has begun eventually returns, with every
\* execution thread out of its loop, through the epilogue and exited.
C20_StopTerminates ==
  \A c \in Clients :
    (cpc[c] \in InStop)
      ~> (/\ cpc[c] = "idle"
          /\ hist.stopsDone > 0
          /\ ~m_bIsRunning
          /\ \A t \in Threads : tpc[t] \in {"none", "exited"})

\* Stop() clears the flag while the execution thread is blocked at the gate.
C20_Witness ==
  /\ cpc[Controller] = "stop_clear"
  /\ \E t \in Threads : tpc[t] = "waiting" /\ t \in m_ConditionVar
  /\ m_bIsRunning

\* Positions of an execution thread of the event-driven worker inside the
\* loop of Execute: past the test of m_bIsRunning, not yet back at it.
InLoopBody == AtGate \cup {"sleep_check", "sleep_set", "sleeping",
                           "sleep_reset", "deq_lock", "deq", "process"}

\* C21: once an execution thread is inside its loop with m_bIsRunning true,
\* every message accepted by SafeAddMessage is eventually passed to Process,
\* with no Stop() call being made.
C21_EnqueueWakesWorker ==
  \A i \in 1..MaxItems :
    (/\ \E t \in Threads : tpc[t] \in InLoopBody
     /\ m_bIsRunning
     /\ Len(accepted) >= i)
      ~> (i \in ProcessedIds \/ hist.stops > 0)

\* A message has been pushed and its notification is due while the execution
\* thread is blocked at the gate or pauses.
C21_Witness ==
  /\ \E c \in Clients : cpc[c] = "add_notify"
  /\ Len(m_Queue) = 1
  /\ m_bIsRunning
  /\ hist.stops = 0
  /\ \E t \in Threads : tpc[t] \in {"waiting", "sleeping"}

\* Positions of an execution thread inside a Stop() call made by Process.
InSelfStop == {"ss_clear", "ss_notify", "ss_joinable", "ss_join",
               "ss_blocked"}

PastLoop == {"epi_lock", "epi_deq", "epi_process", "set_finished", "exited"}

\* C23: after a Start() call has returned and while Stop() has not been
\* called, m_bIsRunning is true and no execution thread has left its loop.
C23_StartLeavesLiveWorker ==
  (hist.startsDone > 0 /\ hist.stops = 0)
    => (/\ m_bIsRunning
        /\ \A t \in Threads : tpc[t] \notin PastLoop)

\* C24: in every reachable state Finished() = true implies IsRunning() = false.
C24_FinishedExcludesRunning == m_bFinished => ~m_bIsRunning

====
